---- MODULE Spec2Model ----
(***************************************************************************)
(* Model of the two executable snippets of the os-module tutorial          *)
(* (src/main.py):                                                          *)
(*   - clean_directory(directory, extensions_to_keep), lines 246-261;      *)
(*   - the "Walking Directory Trees" loop that prunes 'skip_this_dir',     *)
(*     lines 183-192.                                                      *)
(* Both drive the generator os.walk(top) top-down.  The generator is       *)
(* modelled as CPython implements it: a stack of pending directories; one  *)
(* call of next() first pushes the (possibly edited) 'dirs' list of the    *)
(* directory yielded last, in reverse, then pops and lists the next        *)
(* directory.  The order in which a directory's entries are listed is      *)
(* arbitrary.  The file system is a finite tree of directories holding     *)
(* regular files; every directory can be listed and there are no symbolic  *)
(* links.  os.remove either unlinks the file or raises OSError and leaves  *)
(* it in place.                                                            *)
(*                                                                         *)
(* A directory path is the sequence of directory names below the start     *)
(* directory (<<>> is the start directory itself).  A file name is a       *)
(* sequence of one-character strings, so that os.path.splitext and         *)
(* str.lower are computed character by character.                          *)
(***************************************************************************)
EXTENDS Integers, Sequences, FiniteSets, TLC

VARIABLES
    tree,         \* the directories under the start directory (set of paths)
    fs,           \* the files that exist now (set of file paths)
    fs0,          \* the files that existed when the call started
    keep,         \* extensions_to_keep
    stack,        \* os.walk: directories still to be listed, top at the end
    root,         \* the 'root' yielded last
    dirs,         \* the 'dirs' list yielded last (the loop body may edit it)
    files,        \* the 'files' list yielded last
    k,            \* position of the inner 'for file in files' loop
    pc,           \* "walk", "files", "body", "done", "raised"
    yielded,      \* history: every 'root' yielded so far, in order
    seen,         \* history: every file path the inner loop has iterated over
    removeCalls,  \* history: every file path os.remove was called with
    errors        \* history: the file paths whose os.remove raised OSError

vars == <<tree, fs, fs0, keep, stack, root, dirs, files, k, pc,
          yielded, seen, removeCalls, errors>>

(***************************************************************************)
(* Bounds of the model.                                                    *)
(***************************************************************************)
MaxDirs == 2      \* clean_directory: directories below the start directory
MaxFiles == 2     \* files in the whole tree
MaxWalkDirs == 3  \* pruning loop: directories below the start directory

(***************************************************************************)
(* Inputs.                                                                 *)
(***************************************************************************)
SkipName == "skip_this_dir"

DirNames == {"sub", SkipName}

\* 'a.txt', 'B.TXT' and the dot-file '.txt' (which has no extension)
FileNames ==
    { <<"a", ".", "t", "x", "t">>,
      <<"B", ".", "T", "X", "T">>,
      <<".", "t", "x", "t">> }

\* the list of the usage example
extensions ==
    { <<".", "t", "x", "t">>, <<".", "p", "d", "f">>, <<".", "j", "p", "g">> }

\* keep lists tried: the usage example and an upper-case list
KeepLists == { extensions, { <<".", "T", "X", "T">> } }

directory == <<>>

(***************************************************************************)
(* Helpers on sequences and sets.                                          *)
(***************************************************************************)
Range(s) == { s[i] : i \in 1..Len(s) }

Reverse(s) == [i \in 1..Len(s) |-> s[Len(s) + 1 - i]]

IsPrefix(p, q) == Len(p) <= Len(q) /\ SubSeq(q, 1, Len(p)) = p

Count(s, x) == Cardinality({ i \in 1..Len(s) : s[i] = x })

\* all orders in which the elements of S can be listed
Perms(S) ==
    { s \in [1..Cardinality(S) -> S] :
        \A i, j \in 1..Cardinality(S) : s[i] = s[j] => i = j }

\* the subsets of S with at most n elements
RECURSIVE SubsetsUpTo(_, _)
SubsetsUpTo(S, n) ==
    IF n = 0 THEN { {} }
    ELSE LET Smaller == SubsetsUpTo(S, n - 1)
         IN  Smaller \cup { s \cup {x} : s \in Smaller, x \in S }

\* the directory trees with at most n directories below the start directory
RECURSIVE TreesUpTo(_)
TreesUpTo(n) ==
    IF n = 0 THEN { {directory} }
    ELSE LET Smaller == TreesUpTo(n - 1)
         IN  Smaller \cup
             UNION { { t \cup {Append(p, d)} :
                         p \in t, d \in DirNames }
                     : t \in Smaller }

(***************************************************************************)
(* str.lower                                                               *)
(***************************************************************************)
LowerChar(c) ==
    CASE c = "A" -> "a" [] c = "B" -> "b" [] c = "C" -> "c" [] c = "D" -> "d"
      [] c = "E" -> "e" [] c = "F" -> "f" [] c = "G" -> "g" [] c = "H" -> "h"
      [] c = "I" -> "i" [] c = "J" -> "j" [] c = "K" -> "k" [] c = "L" -> "l"
      [] c = "M" -> "m" [] c = "N" -> "n" [] c = "O" -> "o" [] c = "P" -> "p"
      [] c = "Q" -> "q" [] c = "R" -> "r" [] c = "S" -> "s" [] c = "T" -> "t"
      [] c = "U" -> "u" [] c = "V" -> "v" [] c = "W" -> "w" [] c = "X" -> "x"
      [] c = "Y" -> "y" [] c = "Z" -> "z" [] OTHER -> c

RECURSIVE lower(_)
lower(s) ==
    IF s = <<>> THEN <<>>
    ELSE <<LowerChar(Head(s))>> \o lower(Tail(s))

(***************************************************************************)
(* os.path.splitext: the extension starts at the last dot of the last path *)
(* component, unless that component has only dots before it.  Indices are  *)
(* 1-based and 0 stands for "not found".                                   *)
(***************************************************************************)
\* p.rfind(c), scanning p from position i down
RECURSIVE RFindFrom(_, _, _)
RFindFrom(p, c, i) ==
    IF i = 0 THEN 0
    ELSE IF p[i] = c THEN i
    ELSE RFindFrom(p, c, i - 1)

RFind(p, c) == RFindFrom(p, c, Len(p))

\* the loop that skips the leading dots: TRUE when a character other than
\* a dot stands between filenameIndex and dotIndex
RECURSIVE NameBeforeDot(_, _, _)
NameBeforeDot(p, filenameIndex, dotIndex) ==
    IF filenameIndex >= dotIndex THEN FALSE
    ELSE IF p[filenameIndex] # "." THEN TRUE
    ELSE NameBeforeDot(p, filenameIndex + 1, dotIndex)

splitext(p) ==
    LET sepIndex == RFind(p, "/")
        dotIndex == RFind(p, ".")
    IN  IF dotIndex > sepIndex /\ NameBeforeDot(p, sepIndex + 1, dotIndex)
        THEN <<SubSeq(p, 1, dotIndex - 1), SubSeq(p, dotIndex, Len(p))>>
        ELSE <<p, <<>>>>

\* os.path.join(root, file) for a directory path and an entry name
join(r, name) == [dir |-> r, name |-> name]

(***************************************************************************)
(* clean_directory, line 252: the test that sends a file to os.remove      *)
(***************************************************************************)
\* line 251 and the left operand of line 252, tabulated once for the file
\* names of the model: '_, ext = os.path.splitext(file)' and 'ext.lower()'
ExtOf == [file \in FileNames |-> splitext(file)[2]]

LowerExtOf == [file \in FileNames |-> lower(ExtOf[file])]

ShouldRemoveExact(file, extensions_to_keep) ==
    ExtOf[file] \notin extensions_to_keep

ShouldRemove(file, extensions_to_keep) ==
    LowerExtOf[file] \notin extensions_to_keep

(***************************************************************************)
(* clean_directory, lines 256-257: the handler of OSError prints and the   *)
(* inner loop goes on with the next file.                                  *)
(***************************************************************************)
ExceptPropagates == "raised"

ExceptOSError == "files"

(***************************************************************************)
(* list.remove(x): drops the first occurrence of x                         *)
(***************************************************************************)
ListRemoveNothing(s, x) == s

ListRemove(s, x) ==
    LET first == CHOOSE i \in 1..Len(s) :
                     s[i] = x /\ \A j \in 1..(i - 1) : s[j] # x
    IN  SubSeq(s, 1, first - 1) \o SubSeq(s, first + 1, Len(s))

(***************************************************************************)
(* os.walk                                                                 *)
(***************************************************************************)
\* the names of the sub-directories of directory top
SubdirNames(top) == { d \in DirNames : Append(top, d) \in tree }

\* the names of the files that are in directory top now
FileNamesIn(top) == { f.name : f \in { g \in fs : g.dir = top } }

\* what resuming the generator pushes: the yielded dirs list, reversed
PendingTwice(r, ds) ==
    [i \in 1..Len(ds) |-> Append(r, Reverse(ds)[i])]
        \o [i \in 1..Len(ds) |-> Append(r, Reverse(ds)[i])]

PendingNone(r, ds) == <<>>

Pending(r, ds) == [i \in 1..Len(ds) |-> Append(r, Reverse(ds)[i])]

\* one call of next() on the generator; 'to' is where the caller's loop
\* body starts
Walk(to) ==
    /\ \/ pc = "walk"
       \/ pc = "files" /\ k > Len(files)
    /\ LET stack1 == stack \o Pending(root, dirs)
       IN  IF stack1 = <<>>
           THEN /\ pc' = "done"
                /\ stack' = stack1
                /\ dirs' = <<>>
                /\ UNCHANGED <<root, files, k, yielded>>
           ELSE LET top == stack1[Len(stack1)]
                IN  /\ stack' = SubSeq(stack1, 1, Len(stack1) - 1)
                    /\ root' = top
                    /\ \E ds \in Perms(SubdirNames(top)) : dirs' = ds
                    /\ \E fl \in Perms(FileNamesIn(top)) : files' = fl
                    /\ k' = 1
                    /\ yielded' = Append(yielded, top)
                    /\ pc' = to
    /\ UNCHANGED <<tree, fs, fs0, keep, seen, removeCalls, errors>>

(***************************************************************************)
(* clean_directory                                                         *)
(***************************************************************************)
CleanWalk == Walk("files")

\* line 252 is false: the file is left alone
KeepFile ==
    /\ pc = "files"
    /\ k <= Len(files)
    /\ ~ShouldRemove(files[k], keep)
    /\ seen' = Append(seen, join(root, files[k]))
    /\ k' = k + 1
    /\ UNCHANGED <<tree, fs, fs0, keep, stack, root, dirs, files, pc,
                   yielded, removeCalls, errors>>

\* lines 253-255: os.remove succeeds
RemoveOk ==
    /\ pc = "files"
    /\ k <= Len(files)
    /\ ShouldRemove(files[k], keep)
    /\ LET file_path == join(root, files[k])
       IN  /\ fs' = fs \ {file_path}
           /\ seen' = Append(seen, file_path)
           /\ removeCalls' = Append(removeCalls, file_path)
    /\ k' = k + 1
    /\ UNCHANGED <<tree, fs0, keep, stack, root, dirs, files, pc,
                   yielded, errors>>

\* lines 253-254, 256-257: os.remove raises OSError
RemoveError ==
    /\ pc = "files"
    /\ k <= Len(files)
    /\ ShouldRemove(files[k], keep)
    /\ LET file_path == join(root, files[k])
       IN  /\ seen' = Append(seen, file_path)
           /\ removeCalls' = Append(removeCalls, file_path)
           /\ errors' = errors \cup {file_path}
    /\ pc' = ExceptOSError
    /\ k' = k + 1
    /\ UNCHANGED <<tree, fs, fs0, keep, stack, root, dirs, files, yielded>>

Init ==
    /\ tree \in TreesUpTo(MaxDirs)
    /\ fs \in SubsetsUpTo({ join(d, n) : d \in tree, n \in FileNames }, MaxFiles)
    /\ fs0 = fs
    /\ keep \in KeepLists
    /\ stack = <<directory>>
    /\ root = directory
    /\ dirs = <<>>
    /\ files = <<>>
    /\ k = 1
    /\ pc = "walk"
    /\ yielded = <<>>
    /\ seen = <<>>
    /\ removeCalls = <<>>
    /\ errors = {}

Next == CleanWalk \/ KeepFile \/ RemoveOk \/ RemoveError

Spec == Init /\ [][Next]_vars

\* the call runs in one thread that is never suspended for ever
FairSpec == Init /\ [][Next]_vars /\ WF_vars(Next)

(***************************************************************************)
(* The loop of "Walking Directory Trees", lines 184-192                    *)
(***************************************************************************)
SnippetWalk == Walk("body")

\* lines 185-192 when 'skip_this_dir' is in dirs
BodyPrune ==
    /\ pc = "body"
    /\ SkipName \in Range(dirs)
    /\ dirs' = ListRemove(dirs, SkipName)
    /\ pc' = "walk"
    /\ UNCHANGED <<tree, fs, fs0, keep, stack, root, files, k,
                   yielded, seen, removeCalls, errors>>

\* lines 185-191 when it is not
BodyNoPrune ==
    /\ pc = "body"
    /\ SkipName \notin Range(dirs)
    /\ pc' = "walk"
    /\ UNCHANGED <<tree, fs, fs0, keep, stack, root, dirs, files, k,
                   yielded, seen, removeCalls, errors>>

\* the loop only prints 'files': one file name is enough
InitWalk ==
    /\ tree \in TreesUpTo(MaxWalkDirs)
    /\ fs \in SubsetsUpTo({ join(d, <<"a", ".", "t", "x", "t">>) : d \in tree },
                          MaxFiles)
    /\ fs0 = fs
    /\ keep = extensions
    /\ stack = <<directory>>
    /\ root = directory
    /\ dirs = <<>>
    /\ files = <<>>
    /\ k = 1
    /\ pc = "walk"
    /\ yielded = <<>>
    /\ seen = <<>>
    /\ removeCalls = <<>>
    /\ errors = {}

NextWalk == SnippetWalk \/ BodyPrune \/ BodyNoPrune

SpecWalk == InitWalk /\ [][NextWalk]_vars

(***************************************************************************)
(* Properties                                                              *)
(***************************************************************************)
\* the extension of a file as it is spelled on disk
Ext(f) == ExtOf[f.name]

Returned == pc = "done"

C2_KeptFilesStay ==
    \A f \in fs0 : lower(Ext(f)) \in keep => f \in fs

\* a call returned having removed some file while a file of a sub-directory
\* with an upper-case extension on disk was kept
C2_Witness ==
    /\ Returned
    /\ fs # fs0
    /\ \E f \in fs : /\ Len(f.dir) >= 1
                     /\ Ext(f) # lower(Ext(f))
                     /\ lower(Ext(f)) \in keep

\* C3: in the pruning loop no directory named 'skip_this_dir', and no
\* descendant of one, is ever yielded as root, and when the walk is over
\* every other directory of the tree has been yielded.
C3_PruneControlsTraversal ==
    /\ \A i \in 1..Len(yielded) : SkipName \notin Range(yielded[i])
    /\ Returned =>
           \A d \in tree : SkipName \notin Range(d) => d \in Range(yielded)

\* the walk is over; the tree has a 'skip_this_dir' with a sub-directory of
\* its own and a sibling directory that was visited
C3_Witness ==
    /\ Returned
    /\ \E d \in tree : /\ Len(d) >= 1
                       /\ d[Len(d)] = SkipName
                       /\ \E e \in tree : Len(e) > Len(d) /\ IsPrefix(d, e)
    /\ \E d \in Range(yielded) : Len(d) >= 1

VisitedOnce ==
    /\ \A d \in tree : Count(yielded, d) <= 1
    /\ \A f \in fs0 : Count(seen, f) <= 1 /\ Count(removeCalls, f) <= 1
    /\ Returned => /\ \A d \in tree : Count(yielded, d) = 1
                   /\ \A f \in fs0 : Count(seen, f) = 1

\* C5: the call terminates; os.remove is attempted at most once per file and
\* every directory is visited exactly once, removals in progress
\* notwithstanding.
C5_TerminatesVisitingOnce ==
    /\ <>Returned
    /\ []VisitedOnce

\* the call returned after removing a file of one directory and then going
\* on to a sub-directory that holds a file too
C5_Witness ==
    /\ Returned
    /\ Len(yielded) >= 3
    /\ \E f \in fs0 \ fs : \E g \in fs0 : Len(g.dir) > Len(f.dir)

====
